---- MODULE Spec2Model ----
(***************************************************************************)
(* CodexCliClient (src/auto-codex/providers/codex_cli.py): the session     *)
(* table, the child processes it spawns and the coroutines start_session,  *)
(* send, stream_events, close and _terminate_process.  One step of a task  *)
(* runs a coroutine from one suspension point (an await on I/O, a yield of *)
(* the async generator) to the next, as the asyncio event loop does.       *)
(***************************************************************************)
EXTENDS Integers, Sequences, FiniteSets, TLC

\* ---------------------------------------------------------------- bounds
MaxLines == 2         \* stdout lines read over all streams
MaxCalls == 3         \* calls of start_session, send, stream_events, close

\* ------------------------------------------------------------- constants
GracePeriod == 5      \* wait_for(process.wait(), timeout=5)
DefaultTimeout == 600 \* timeout: int = 600
NoneRC == -1000       \* process.returncode is None: the process has not exited
SIGTERM == -15        \* returncode of a process ended by terminate()
SIGKILL == -9         \* returncode of a process ended by kill()

Tasks == {"A", "B"}   \* the callers (asyncio tasks) using one client
ExitCodes == {0, 2}   \* codes a process exits with on its own
Prompt == "prompt"

\* ------------------------------------------------------------------ text
\* Text is a sequence of tokens: a whitespace character or a chunk without
\* whitespace at its ends.
IsSpace(c) == c \in {" ", "\n", "\t"}

RECURSIVE LStrip(_)
LStrip(s) == IF s # <<>> /\ IsSpace(Head(s)) THEN LStrip(Tail(s)) ELSE s

RECURSIVE RStrip(_)
RStrip(s) ==
  IF s # <<>> /\ IsSpace(s[Len(s)]) THEN RStrip(SubSeq(s, 1, Len(s) - 1)) ELSE s

\* str.strip(): leading and trailing whitespace removed
Strip(s) == RStrip(LStrip(s))

\* what a child may have written to stderr
StderrTexts == { <<>>, <<" ", "boom", "\n">> }

\* ---------------------------------------------------------------- events
Ev(type, data) == [type |-> type, data |-> data]

SessionStart(sid) == Ev("session_start", [session_id |-> sid])
SessionEnd(sid) == Ev("session_end", [session_id |-> sid])
TimeoutError == Ev("error", [error |-> "timeout waiting for output"])
ExcError(msg) == Ev("error", [error |-> msg])
ExitError(rc, text) ==
  Ev("error", [error |-> "process exited with error", returncode |-> rc,
               stderr |-> Strip(text)])

\* -------------------------------------------------------- the line parser
J_message == "{\"type\":\"message\",\"content\":\"hi\"}"
J_message_bare == "{\"type\":\"message\"}"
J_tool_use ==
  "{\"type\":\"tool_use\",\"name\":\"grep\",\"input\":{\"pattern\":\"foo\"}}"
J_tool_result == "{\"type\":\"tool_result\",\"content\":\"ok\"}"
J_error == "{\"type\":\"error\",\"error\":\"bad\"}"
J_other == "{\"type\":\"status\"}"
J_notype == "{\"id\":\"7\"}"
J_number == "123"

\* the lines a child writes to stdout in the streaming specifications
StreamLines ==
  { <<"\n">>, <<" ", "\t", "\n">>, <<" ", J_error, "\n">>, <<J_number, "\n">> }

\* stdout lines as readline() returns them (with the newline)
Lines ==
  { <<"\n">>, <<" ", "not json", "\n">>, <<J_message, "\n">>,
    <<J_message_bare, "\n">>, <<J_tool_use, "\n">>, <<J_tool_result, "\n">>,
    <<J_error, "\n">>, <<J_other, "\n">>, <<J_notype, "\n">>, <<J_number, "\n">> }

\* json.loads on a stripped line: the decoded value, or a JSONDecodeError
JsonLoads(line) ==
  CASE line = <<J_message>> ->
         [ok |-> TRUE, isdict |-> TRUE, obj |-> [type |-> "message", content |-> "hi"]]
    [] line = <<J_message_bare>> ->
         [ok |-> TRUE, isdict |-> TRUE, obj |-> [type |-> "message"]]
    [] line = <<J_tool_use>> ->
         [ok |-> TRUE, isdict |-> TRUE,
          obj |-> [type |-> "tool_use", name |-> "grep",
                   input |-> [pattern |-> "foo"]]]
    [] line = <<J_tool_result>> ->
         [ok |-> TRUE, isdict |-> TRUE, obj |-> [type |-> "tool_result", content |-> "ok"]]
    [] line = <<J_error>> ->
         [ok |-> TRUE, isdict |-> TRUE, obj |-> [type |-> "error", error |-> "bad"]]
    [] line = <<J_other>> ->
         [ok |-> TRUE, isdict |-> TRUE, obj |-> [type |-> "status"]]
    [] line = <<J_notype>> ->
         [ok |-> TRUE, isdict |-> TRUE, obj |-> [id |-> "7"]]
    [] line = <<J_number>> ->
         [ok |-> TRUE, isdict |-> FALSE, obj |-> [int |-> 123]]
    [] OTHER -> [ok |-> FALSE, isdict |-> FALSE, obj |-> [none |-> 0]]

\* dict.get(key, default)
Get(obj, key, default) == IF key \in DOMAIN obj THEN obj[key] ELSE default

\* _parse_output_line on a stripped line: no event, an event, or an exception
ParseOutputLine(line) ==
  IF line = <<>> THEN [kind |-> "none"]
  ELSE LET j == JsonLoads(line) IN
    IF ~j.ok THEN [kind |-> "event", event |-> Ev("text", [content |-> line])]
    ELSE IF ~j.isdict
      THEN [kind |-> "raise", exc |-> "object has no attribute 'get'"]
    ELSE LET event_type == Get(j.obj, "type", "") IN
      CASE event_type = "message" ->
             [kind |-> "event",
              event |-> Ev("text", [content |-> Get(j.obj, "content", "")])]
        [] event_type = "tool_use" ->
             [kind |-> "event", event |-> Ev("tool_start", j.obj)]
        [] event_type = "tool_result" ->
             [kind |-> "event", event |-> Ev("tool_result", j.obj)]
        [] event_type = "error" ->
             [kind |-> "event", event |-> Ev("error", j.obj)]
        [] OTHER -> [kind |-> "event", event |-> Ev("text", [raw |-> line])]

\* --------------------------------------------------------------- auth.py
\* A str is the sequence of its characters.  A value of type str | None is
\* None or Some(s).
None == <<>>
Some(s) == <<s>>

\* bool(v) of a str | None: neither None nor the empty string
Truthy(v) == v # None /\ v[1] # <<>>

\* v or ""
OrEmpty(v) == IF Truthy(v) THEN v[1] ELSE <<>>

\* values of environment variables
\* a key as in the tests
K_test ==
  <<"s", "k", "-", "t", "e", "s", "t", "-", "1", "2", "3", "4", "5", "6",
    "7", "8", "9", "0", "a", "b", "c", "d", "e", "f", "1", "2", "3", "4">>
\* sk- and 20 hexadecimal characters
K_min ==
  <<"s", "k", "-", "0", "1", "2", "3", "4", "5", "6", "7", "8", "9", "a",
    "b", "c", "d", "e", "f", "0", "1", "2", "3">>
\* sk- and 19 characters
K_short ==
  <<"s", "k", "-", "0", "1", "2", "3", "4", "5", "6", "7", "8", "9", "a",
    "b", "c", "d", "e", "f", "0", "1", "2">>
K_underscore ==
  <<"s", "k", "_", "1", "2", "3">>
K_notakey ==
  <<"n", "o", "t", "-", "a", "-", "k", "e", "y">>
\* K_min and a newline
K_newline ==
  <<"s", "k", "-", "0", "1", "2", "3", "4", "5", "6", "7", "8", "9", "a",
    "b", "c", "d", "e", "f", "0", "1", "2", "3", "\n">>
\* an underscore among 23 characters after sk-
K_badchar ==
  <<"s", "k", "-", "0", "1", "2", "3", "4", "5", "6", "7", "8", "9", "_",
    "a", "b", "c", "d", "e", "f", "0", "1", "2", "3">>
\* K_min after another character
K_prefixed ==
  <<"x", "s", "k", "-", "0", "1", "2", "3", "4", "5", "6", "7", "8", "9",
    "a", "b", "c", "d", "e", "f", "0", "1", "2", "3">>
LegacyToken ==
  <<"l", "e", "g", "a", "c", "y", "-", "t", "o", "k", "e", "n">>
CodexToken ==
  <<"c", "o", "d", "e", "x", "-", "t", "o", "k", "e", "n", "-", "1", "2",
    "3", "4", "5", "6", "7", "8", "9", "0", "a", "b", "c", "d", "e", "f">>
ConfigDir ==
  <<"/", "t", "m", "p", "/", "c", "o", "d", "e", "x">>

\* values OPENAI_API_KEY may hold when set
Keys ==
  {<<>>, K_test, K_min, K_short, K_underscore, K_notakey, K_newline,
   K_badchar, K_prefixed}

\* AUTH_TOKEN_ENV_VARS[0], DEPRECATED_AUTH_ENV_VARS
AuthVar == "OPENAI_API_KEY"
DeprecatedVars == <<"CLAUDE_CODE_OAUTH_TOKEN">>

\* the class [A-Za-z0-9-]
KeyChars ==
  {"a", "b", "c", "d", "e", "f", "g", "h", "i", "j", "k", "l", "m", "n",
   "o", "p", "q", "r", "s", "t", "u", "v", "w", "x", "y", "z", "A", "B",
   "C", "D", "E", "F", "G", "H", "I", "J", "K", "L", "M", "N", "O", "P",
   "Q", "R", "S", "T", "U", "V", "W", "X", "Y", "Z", "0", "1", "2", "3",
   "4", "5", "6", "7", "8", "9", "-"}

\* the {20,} of _OPENAI_KEY_PATTERN
MinKeyLen == 20

\* where $ matches: at the end of the string and before a newline that ends it
DollarPositions(s) ==
  {Len(s)} \cup (IF s # <<>> /\ s[Len(s)] = "\n" THEN {Len(s) - 1} ELSE {})

\* _OPENAI_KEY_PATTERN.match(s) for ^sk-[A-Za-z0-9-]{20,}$
KeyPatternMatch(s) ==
  /\ Len(s) >= 3
  /\ SubSeq(s, 1, 3) = <<"s", "k", "-">>
  /\ \E e \in DollarPositions(s) :
       /\ e - 3 >= MinKeyLen
       /\ \A i \in 4..e : s[i] \in KeyChars

\* is_valid_openai_api_key(token), token a str | None
IsValidOpenaiApiKey(token) == KeyPatternMatch(OrEmpty(token))

\* os.environ.get(var) and os.environ.get(var, default)
EnvGet(env, var) == IF var \in DOMAIN env THEN Some(env[var]) ELSE None
EnvGetOr(env, var, default) ==
  IF var \in DOMAIN env THEN Some(env[var]) ELSE Some(default)

\* get_deprecated_auth_token(): the first legacy variable with a value
RECURSIVE FirstSet(_, _, _)
FirstSet(env, names, i) ==
  IF i > Len(names) THEN None
  ELSE IF Truthy(EnvGet(env, names[i])) THEN EnvGet(env, names[i])
  ELSE FirstSet(env, names, i + 1)

GetDeprecatedAuthToken(env) == FirstSet(env, DeprecatedVars, 1)

\* get_auth_token()
GetAuthToken(env) ==
  LET token == EnvGetOr(env, AuthVar, <<>>) IN
  IF Truthy(token) /\ IsValidOpenaiApiKey(token) THEN token ELSE None

\* get_auth_token_source(): a variable name or None
GetAuthTokenSource(env) ==
  LET token == EnvGetOr(env, AuthVar, <<>>) IN
  IF Truthy(token) /\ IsValidOpenaiApiKey(token) THEN Some(AuthVar) ELSE None

\* the messages of require_auth_token, word by word
MsgInvalid ==
  <<"Invalid", "OPENAI_API_KEY", "format.", "Expected", "a", "key",
    "starting", "with", "'sk-'", "(e.g.,", "sk-...).">>
MsgDeprecated ==
  <<"Detected", "CLAUDE_CODE_OAUTH_TOKEN", ",", "but", "Codex", "now",
    "requires", "OPENAI_API_KEY", ".", "Please", "migrate", "by", "setting",
    "OPENAI_API_KEY", "in", "your", "environment", "and", "remove",
    "CLAUDE_CODE_OAUTH_TOKEN", "once", "complete.">>
MsgMissing ==
  <<"No", "OpenAI", "API", "key", "found.", "Auto", "Codex", "uses", "OpenAI",
    "Codex.", "Set", "OPENAI_API_KEY", "in", "your", ".env", "file", "or",
    "environment.">>

Returned(v) == [kind |-> "return", value |-> v]
Raised(exc, msg) == [kind |-> "raise", exc |-> exc, msg |-> msg]

\* require_auth_token(): the token, or a ValueError
RequireAuthToken(env) ==
  LET token == GetAuthToken(env)
      openai_token == EnvGetOr(env, AuthVar, <<>>)
      deprecated_token == GetDeprecatedAuthToken(env)
  IN
  IF Truthy(token) THEN Returned(token)
  ELSE IF Truthy(openai_token) /\ ~IsValidOpenaiApiKey(openai_token)
    THEN Raised("ValueError", MsgInvalid)
  ELSE IF Truthy(deprecated_token) THEN Raised("ValueError", MsgDeprecated)
  ELSE Raised("ValueError", MsgMissing)

\* ----------------------------------------------------------------- state
VARIABLES
  timeout,    \* self.timeout
  sessions,   \* self._sessions: session id -> reference to a CodexSession
  objs,       \* the CodexSession objects: reference -> fields
  procs,      \* the processes spawned so far, in order of spawning
  nlines,     \* stdout lines read so far
  ncalls,     \* calls made so far
  pc,         \* per task: where its coroutine is suspended
  op,         \* per task: the operation it runs or ran last
  arg,        \* per task: the session id of that operation
  tproc,      \* per task: the local variable process
  waited,     \* per task: ticks spent in the current wait_for
  events,     \* per task: the events its stream_events has yielded
  result,     \* per task: "pending", "ok" or the exception raised
  config,     \* self.model, self.workdir, self.bypass_sandbox, self.extra_args
  environ,    \* os.environ: variable name -> value, for the variables set
  on_path,    \* shutil.which("codex") finds the executable
  ret,        \* the last synchronous call: its name, argument and outcome
  adapter     \* the CodexClientAdapter: _session_id, the position of its
              \* coroutine, its last call, the messages yielded, the outcome

vars == <<timeout, sessions, objs, procs, nlines, ncalls, pc, op, arg, tproc,
          waited, events, result, config, environ, on_path, ret, adapter>>

\* what the session operations of the client leave alone
host == <<config, environ, on_path, ret>>

\* a step in which the adapter takes no part
Alone == UNCHANGED adapter

Remove(f, k) == [x \in DOMAIN f \ {k} |-> f[x]]

Running(p) == procs[p].returncode = NoneRC

\* the ids a caller passes: one generated so far, or 0, which never is
CallIds == 0..Len(procs)

\* CodexCliClient(): the defaults of __init__
DefaultConfig ==
  [model |-> "gpt-5.2-codex-xhigh", workdir |-> "cwd", bypass_sandbox |-> TRUE,
   extra_args |-> <<>>]

\* the configurations a client is constructed with
Configs ==
  { DefaultConfig,
    [DefaultConfig EXCEPT !.bypass_sandbox = FALSE,
                          !.extra_args = <<"--x", "--a">>],
    [model |-> "o3", workdir |-> "/project", bypass_sandbox |-> TRUE,
     extra_args |-> <<"--x", "--a">>],
    [model |-> "o3", workdir |-> "/project", bypass_sandbox |-> FALSE,
     extra_args |-> <<>>] }

\* the environment with the variables of S set
Env(S, key) ==
  [v \in S |->
     CASE v = AuthVar -> key
       [] v = "CLAUDE_CODE_OAUTH_TOKEN" -> LegacyToken
       [] v = "CODEX_CODE_OAUTH_TOKEN" -> CodexToken
       [] v = "CODEX_CONFIG_DIR" -> ConfigDir]

\* the environments a client runs in
Environs ==
  { Env(S, key) :
      S \in (SUBSET {AuthVar, "CLAUDE_CODE_OAUTH_TOKEN"})
             \cup {{"CODEX_CODE_OAUTH_TOKEN"}, {"CODEX_CONFIG_DIR"}},
      key \in Keys }

\* the environments sessions are started in: OPENAI_API_KEY unset, valid,
\* malformed or ending in a newline, the deprecated variable set or not
HostEnvirons ==
  { Env(S, key) :
      S \in SUBSET {AuthVar, "CLAUDE_CODE_OAUTH_TOKEN"},
      key \in {K_test, K_notakey, K_newline} }

\* no synchronous call made yet
NoCall == [op |-> "none"]

\* CodexClientAdapter.__init__: no session tracked (0 stands for None)
NewAdapter ==
  [session_id |-> 0, pc |-> "idle", op |-> "none", messages |-> <<>>,
   result |-> "ok"]

\* the session table and the tasks after __init__
Constructed ==
  /\ sessions = <<>>
  /\ objs = <<>>
  /\ procs = <<>>
  /\ nlines = 0
  /\ ncalls = 0
  /\ pc = [t \in Tasks |-> "idle"]
  /\ op = [t \in Tasks |-> "none"]
  /\ arg = [t \in Tasks |-> 0]
  /\ tproc = [t \in Tasks |-> 0]
  /\ waited = [t \in Tasks |-> 0]
  /\ events = [t \in Tasks |-> <<>>]
  /\ result = [t \in Tasks |-> "ok"]
  /\ ret = NoCall
  /\ adapter = NewAdapter

\* a default client, codex installed and a valid key in the environment
Init ==
  /\ timeout \in {0, DefaultTimeout}
  /\ config = DefaultConfig
  /\ environ = Env({AuthVar}, K_test)
  /\ on_path = TRUE
  /\ Constructed

\* a default client in any environment
InitCalls ==
  /\ timeout = DefaultTimeout
  /\ config = DefaultConfig
  /\ environ \in Environs
  /\ on_path \in BOOLEAN
  /\ Constructed

\* any client in any environment
InitHost ==
  /\ timeout = DefaultTimeout
  /\ config \in Configs
  /\ environ \in HostEnvirons
  /\ on_path \in BOOLEAN
  /\ Constructed

\* a caller begins operation o on session id sid
Begin(t, o, sid) ==
  /\ pc[t] = "idle"
  /\ ncalls < MaxCalls
  /\ ncalls' = ncalls + 1
  /\ op' = [op EXCEPT ![t] = o]
  /\ arg' = [arg EXCEPT ![t] = sid]
  /\ UNCHANGED host

\* a step inside an operation
Within == UNCHANGED <<ncalls, op, arg, host>>

\* the coroutine of task t moves to label l with result r, process p
Move(t, l, r, p) ==
  /\ pc' = [pc EXCEPT ![t] = l]
  /\ result' = [result EXCEPT ![t] = r]
  /\ tproc' = [tproc EXCEPT ![t] = p]
  /\ waited' = [waited EXCEPT ![t] = 0]

\* the operation of task t returns (r = "ok") or raises r
Return(t, r) == Move(t, "idle", r, 0)

\* the coroutine of task t suspends at label l
Goto(t, l) == Move(t, l, "pending", tproc[t])

Yield(t, evs) == events' = [events EXCEPT ![t] = evs]

\* --------------------------------------------------------- start_session
\* mutant: the extra arguments are appended after the final "-"
BuildCommandArgsLast(bypass_sandbox, model, extra_args) ==
  <<"codex", "exec">>
    \o (IF bypass_sandbox THEN <<"--dangerously-bypass-approvals-and-sandbox">>
        ELSE <<>>)
    \o <<"-m", model>> \o <<"--json">> \o <<"-">> \o extra_args

\* _build_command: the argument list, from the client configuration
BuildCommand(bypass_sandbox, model, extra_args) ==
  <<"codex", "exec">>
    \o (IF bypass_sandbox THEN <<"--dangerously-bypass-approvals-and-sandbox">>
        ELSE <<>>)
    \o <<"-m", model>> \o <<"--json">> \o extra_args \o <<"-">>

\* a process as create_subprocess_exec returns it, the prompt written to
\* stdin; it inherits the environment
Spawned(cmd, cwd, env, prompt) ==
  [returncode |-> NoneRC, stdout |-> "open", stdin |-> <<prompt, "\n">>,
   stdin_closed |-> FALSE, stderr |-> <<>>, signals |-> <<>>,
   cmd |-> cmd, cwd |-> cwd, environ |-> env]

\* **kwargs of start_session
NoKwargs == [k \in {} |-> ""]
Kwargs == {NoKwargs, [k \in {"workdir"} |-> "/override"]}

\* lines 57-71: the id is generated, the process spawned, the prompt written;
\* the coroutine suspends in drain()
StartSession(t, kwargs) ==
  /\ Begin(t, "start_session", Len(procs) + 1)
  /\ LET cmd == BuildCommand(config.bypass_sandbox, config.model,
                              config.extra_args)
         workdir == Get(kwargs, "workdir", config.workdir)
     IN procs' = Append(procs, Spawned(cmd, workdir, environ, Prompt))
  /\ Move(t, "start_drain", "pending", Len(procs) + 1)
  /\ Yield(t, <<>>)
  /\ UNCHANGED <<timeout, sessions, objs, nlines>>

\* mutant: recording a session replaces the table
RegisterReplaces(sid, p) ==
  /\ objs' = (sid :> [session_id |-> sid, process |-> p, workdir |-> procs[p].cwd,
                      closed |-> FALSE]) @@ objs
  /\ sessions' = (sid :> sid)

\* lines 74-76: the session recorded under its id
Register(sid, p) ==
  /\ objs' = (sid :> [session_id |-> sid, process |-> p, workdir |-> procs[p].cwd,
                      closed |-> FALSE]) @@ objs
  /\ sessions' = (sid :> sid) @@ sessions

\* lines 72-77: stdin is closed, the session recorded, the id returned
StartSessionDone(t) ==
  /\ pc[t] = "start_drain"
  /\ procs' = [procs EXCEPT ![tproc[t]].stdin_closed = TRUE]
  /\ Register(arg[t], tproc[t])
  /\ Return(t, "ok")
  /\ Within
  /\ UNCHANGED <<timeout, nlines, events>>

\* line 71: drain() raises when the child has closed its end of stdin
StartSessionFails(t) ==
  /\ pc[t] = "start_drain"
  /\ Return(t, "ConnectionResetError")
  /\ Within
  /\ UNCHANGED <<timeout, sessions, objs, procs, nlines, events>>

\* ------------------------------------------------------------ the process
HasSignal(p, sig) == \E i \in DOMAIN procs[p].signals : procs[p].signals[i] = sig

\* the codes a process can exit with: its own, or that of a signal it was sent
CanExitWith(p) ==
  ExitCodes \cup (IF HasSignal(p, "SIGTERM") THEN {SIGTERM} ELSE {})
            \cup (IF HasSignal(p, "SIGKILL") THEN {SIGKILL} ELSE {})

ProcessExits(p, code) ==
  /\ Running(p)
  /\ code \in CanExitWith(p)
  /\ procs' = [procs EXCEPT ![p].returncode = code]
  /\ UNCHANGED <<timeout, sessions, objs, nlines, ncalls, pc, op, arg, tproc,
                 waited, events, result, host>>

\* the child closes stdout, or has exited and all its output has been read;
\* only a pending readline sees it
StdoutEOF(p) ==
  /\ procs[p].stdout = "open"
  /\ \E t \in Tasks : pc[t] = "read" /\ tproc[t] = p
  /\ procs' = [procs EXCEPT ![p].stdout = "eof"]
  /\ UNCHANGED <<timeout, sessions, objs, nlines, ncalls, pc, op, arg, tproc,
                 waited, events, result, host>>

\* --------------------------------------------- close, _terminate_process
\* mutant: the signal goes to every process of the client
SignalAll(p, sig) == [q \in DOMAIN procs |-> [procs[q] EXCEPT !.signals = Append(@, sig)]]

\* process.terminate() / process.kill()
Signal(p, sig) == [procs EXCEPT ![p].signals = Append(@, sig)]

\* mutant: the session object is marked closed and stays in the table
CloseFinishKeeps(ref, sid) ==
  /\ objs' = [objs EXCEPT ![ref].closed = TRUE]
  /\ UNCHANGED sessions

\* lines 186-187: mark the session object closed, pop the id
CloseFinish(ref, sid) ==
  /\ objs' = [objs EXCEPT ![ref].closed = TRUE]
  /\ sessions' = Remove(sessions, sid)

\* mutant: closing an id that is not open empties the table
CloseNothingClears(sid) ==
  /\ sessions' = <<>>
  /\ UNCHANGED objs

\* lines 179-181: nothing to close
CloseNothing(sid) ==
  /\ sessions' = Remove(sessions, sid)
  /\ UNCHANGED objs

\* line 179: the id has an entry that is not closed
IsOpen(sid) == sid \in DOMAIN sessions /\ ~objs[sessions[sid]].closed

\* mutant: _terminate_process never signals
MustWaitNever(p) == FALSE

\* lines 190-191 of _terminate_process: it signals and waits, or returns at once
MustWait(p) == Running(p)

\* close: lines 178-187 up to the first suspension
Close(t, sid) ==
  /\ Begin(t, "close", sid)
  /\ Yield(t, <<>>)
  /\ IF ~IsOpen(sid)
     THEN /\ CloseNothing(sid)
          /\ Return(t, "ok")
          /\ UNCHANGED procs
     ELSE LET p == objs[sessions[sid]].process IN
          IF MustWait(p)
          THEN /\ procs' = Signal(p, "SIGTERM")
               /\ Move(t, "term_wait", "pending", p)
               /\ UNCHANGED <<sessions, objs>>
          ELSE /\ CloseFinish(sessions[sid], sid)
               /\ Return(t, "ok")
               /\ UNCHANGED procs
  /\ UNCHANGED <<timeout, nlines>>

\* time passes for a task suspended in a wait_for, up to the time allowed
Tick(t) ==
  /\ \/ pc[t] = "term_wait" /\ waited[t] < GracePeriod
           /\ waited' = [waited EXCEPT ![t] = GracePeriod]
     \/ pc[t] = "read" /\ timeout > 0 /\ waited[t] < timeout
           /\ waited' = [waited EXCEPT ![t] = timeout]
  /\ UNCHANGED <<timeout, sessions, objs, procs, nlines, ncalls, pc, op, arg,
                 tproc, events, result, host>>

\* mutant: the kill does not wait for the grace period
GraceExpiredAtOnce(t) == TRUE

\* line 194: the wait for exit has lasted the grace period
GraceExpired(t) == waited[t] = GracePeriod

\* lines 195-197: the grace period expired, the process is killed and awaited
TerminateKill(t) ==
  /\ pc[t] = "term_wait"
  /\ Running(tproc[t])
  /\ GraceExpired(t)
  /\ procs' = Signal(tproc[t], "SIGKILL")
  /\ Goto(t, "kill_wait")
  /\ Within
  /\ UNCHANGED <<timeout, sessions, objs, nlines, events>>

\* lines 194, 197: process.wait() returns, _terminate_process returns to close
CloseAfterWait(t) ==
  /\ op[t] = "close"
  /\ pc[t] \in {"term_wait", "kill_wait"}
  /\ ~Running(tproc[t])
  /\ CloseFinish(arg[t], arg[t])
  /\ Return(t, "ok")
  /\ Within
  /\ UNCHANGED <<timeout, procs, nlines, events>>

\* ------------------------------------------------------------------ send
\* process.stdin is a StreamWriter: the process was spawned with stdin=PIPE
HasStdin(p) == TRUE

\* mutant: send on a session that is not open returns silently
SendUnchecked(t, sid) ==
  /\ Begin(t, "send", sid)
  /\ Yield(t, <<>>)
  /\ IF ~IsOpen(sid)
     THEN Return(t, "ok") /\ UNCHANGED procs
     ELSE LET p == objs[sessions[sid]].process IN
          /\ procs' = [procs EXCEPT ![p].stdin =
                         IF procs[p].stdin_closed THEN @
                         ELSE @ \o <<"message", "\n">>]
          /\ Move(t, "send_drain", "pending", p)
  /\ UNCHANGED <<timeout, sessions, objs, nlines>>

\* send: lines 94-101, up to the suspension in drain(); a write to a closed
\* pipe transport is dropped
Send(t, sid) ==
  /\ Begin(t, "send", sid)
  /\ Yield(t, <<>>)
  /\ IF ~IsOpen(sid)
     THEN Return(t, "ValueError") /\ UNCHANGED procs
     ELSE LET p == objs[sessions[sid]].process IN
          IF ~HasStdin(p)
          THEN Return(t, "RuntimeError") /\ UNCHANGED procs
          ELSE /\ procs' = [procs EXCEPT ![p].stdin =
                              IF procs[p].stdin_closed THEN @
                              ELSE @ \o <<"message", "\n">>]
               /\ Move(t, "send_drain", "pending", p)
  /\ UNCHANGED <<timeout, sessions, objs, nlines>>

\* line 102: drain() returns, or raises because the pipe is closed
SendDrain(t, r) ==
  /\ pc[t] = "send_drain"
  /\ r \in IF procs[tproc[t]].stdin_closed THEN {"ok", "ConnectionResetError"}
           ELSE {"ok"}
  /\ Return(t, r)
  /\ Within
  /\ UNCHANGED <<timeout, sessions, objs, procs, nlines, events>>

\* --------------------------------------------------------- stream_events
\* mutant: the stream ends without closing its session
CloseFromStreamSkipped(sid) == UNCHANGED <<sessions, objs>>

\* line 151 as stream_events reaches it: the process has exited, so
\* _terminate_process returns at once and close does not suspend
CloseFromStream(sid) ==
  IF IsOpen(sid) THEN CloseFinish(sessions[sid], sid) ELSE CloseNothing(sid)

\* mutant: the stream returns without yielding session_end
CloseAndEndSilent(t, evs) ==
  /\ CloseFromStream(arg[t])
  /\ Yield(t, evs)
  /\ Return(t, "ok")

\* lines 151-152: the session closed, session_end yielded, the stream over
CloseAndEnd(t, evs) ==
  /\ CloseFromStream(arg[t])
  /\ Yield(t, Append(evs, SessionEnd(arg[t])))
  /\ Return(t, "ok")

\* mutant: only a positive exit code is reported (returncode > 0)
AfterExitPositive(t, evs) ==
  IF procs[tproc[t]].returncode > 0
  THEN /\ Goto(t, "read_stderr")
       /\ Yield(t, evs)
       /\ UNCHANGED <<sessions, objs>>
  ELSE CloseAndEnd(t, evs)

\* lines 142-145 once the exit code is known: read stderr, or go on to close
AfterExit(t, evs) ==
  IF procs[tproc[t]].returncode # 0
  THEN /\ Goto(t, "read_stderr")
       /\ Yield(t, evs)
       /\ UNCHANGED <<sessions, objs>>
  ELSE CloseAndEnd(t, evs)

\* mutant: the exit of a running process is not waited for
AfterLoopNoWait(t, evs) ==
  IF Running(tproc[t]) THEN CloseAndEnd(t, evs) ELSE AfterExit(t, evs)

\* lines 139-141 when the read loop has ended: wait for the exit code if needed
AfterLoop(t, evs) ==
  IF Running(tproc[t])
  THEN /\ Goto(t, "wait_exit")
       /\ Yield(t, evs)
       /\ UNCHANGED <<sessions, objs>>
  ELSE AfterExit(t, evs)

\* stream_events is single-consumer: no other stream of this session is running
SingleConsumer(t, sid) ==
  \A u \in Tasks \ {t} :
    ~(op[u] = "stream_events" /\ arg[u] = sid /\ pc[u] # "idle")

\* line 107: the lookup finds a session with a process
Found(sid) == sid \in DOMAIN sessions

\* lines 106-111: NotFound, or session_start yielded
StreamEvents(t, sid) ==
  /\ Begin(t, "stream_events", sid)
  /\ SingleConsumer(t, sid)
  /\ IF ~Found(sid)
     THEN Return(t, "ValueError") /\ Yield(t, <<>>)
     ELSE /\ Move(t, "read", "pending", objs[sessions[sid]].process)
          /\ Yield(t, <<SessionStart(sid)>>)
  /\ UNCHANGED <<timeout, sessions, objs, procs, nlines>>

\* lines 116-121: the read is bounded by wait_for
ReadIsTimed == timeout > 0

\* mutant: a line that is empty once stripped ends the read loop
ReadLineBlankStops(t, line) ==
  /\ pc[t] = "read"
  /\ procs[tproc[t]].stdout = "open"
  /\ nlines < MaxLines
  /\ nlines' = nlines + 1
  /\ LET r == ParseOutputLine(Strip(line)) IN
     CASE r.kind = "none" -> AfterLoop(t, events[t])
       [] r.kind = "event" ->
            /\ Goto(t, "read") /\ Yield(t, Append(events[t], r.event))
            /\ UNCHANGED <<sessions, objs>>
       [] r.kind = "raise" ->
            /\ Goto(t, "exc_yield") /\ Yield(t, Append(events[t], ExcError(r.exc)))
            /\ UNCHANGED <<sessions, objs>>
  /\ Within
  /\ UNCHANGED <<timeout, procs>>

\* lines 117-135: readline returns a line; it is decoded, stripped and parsed
ReadLine(t, line) ==
  /\ pc[t] = "read"
  /\ procs[tproc[t]].stdout = "open"
  /\ nlines < MaxLines
  /\ nlines' = nlines + 1
  /\ LET r == ParseOutputLine(Strip(line)) IN
     CASE r.kind = "none" -> Goto(t, "read") /\ Yield(t, events[t])
       [] r.kind = "event" ->
            Goto(t, "read") /\ Yield(t, Append(events[t], r.event))
       [] r.kind = "raise" ->
            Goto(t, "exc_yield") /\ Yield(t, Append(events[t], ExcError(r.exc)))
  /\ Within
  /\ UNCHANGED <<timeout, sessions, objs, procs>>

\* lines 117-121, 136-137: readline raises (a line longer than the limit)
ReadRaises(t) ==
  /\ pc[t] = "read"
  /\ procs[tproc[t]].stdout = "open"
  /\ nlines < MaxLines
  /\ nlines' = nlines + 1
  /\ Goto(t, "exc_yield")
  /\ Yield(t, Append(events[t], ExcError("Separator is not found")))
  /\ Within
  /\ UNCHANGED <<timeout, sessions, objs, procs>>

\* lines 130-131, 139-: readline returns b"" at end of file
ReadEOF(t) ==
  /\ pc[t] = "read"
  /\ procs[tproc[t]].stdout = "eof"
  /\ AfterLoop(t, events[t])
  /\ Within
  /\ UNCHANGED <<timeout, procs, nlines>>

\* lines 122-126: wait_for raises TimeoutError, the timeout error is yielded
ReadTimeout(t) ==
  /\ pc[t] = "read"
  /\ procs[tproc[t]].stdout = "open"
  /\ ReadIsTimed
  /\ waited[t] = timeout
  /\ Goto(t, "timeout_yield")
  /\ Yield(t, Append(events[t], TimeoutError))
  /\ Within
  /\ UNCHANGED <<timeout, sessions, objs, procs, nlines>>

\* mutant: after the timeout error the loop is left without terminating
TimeoutTerminateSkipped(t) ==
  /\ pc[t] = "timeout_yield"
  /\ AfterLoop(t, events[t])
  /\ Within
  /\ UNCHANGED <<timeout, procs, nlines>>

\* lines 127-128: the generator resumes and terminates the process
TimeoutTerminate(t) ==
  /\ pc[t] = "timeout_yield"
  /\ IF MustWait(tproc[t])
     THEN /\ procs' = Signal(tproc[t], "SIGTERM")
          /\ Goto(t, "term_wait")
          /\ UNCHANGED <<sessions, objs, events>>
     ELSE /\ AfterLoop(t, events[t])
          /\ UNCHANGED procs
  /\ Within
  /\ UNCHANGED <<timeout, nlines>>

\* lines 194, 197, 128: _terminate_process returns to stream_events
StreamAfterWait(t) ==
  /\ op[t] = "stream_events"
  /\ pc[t] \in {"term_wait", "kill_wait"}
  /\ ~Running(tproc[t])
  /\ AfterLoop(t, events[t])
  /\ Within
  /\ UNCHANGED <<timeout, procs, nlines>>

\* line 137 -> 139: the generator resumes after the error of the except clause
ExcResume(t) ==
  /\ pc[t] = "exc_yield"
  /\ AfterLoop(t, events[t])
  /\ Within
  /\ UNCHANGED <<timeout, procs, nlines>>

\* line 141: process.wait() returns
WaitExit(t) ==
  /\ pc[t] = "wait_exit"
  /\ ~Running(tproc[t])
  /\ AfterExit(t, events[t])
  /\ Within
  /\ UNCHANGED <<timeout, procs, nlines>>

\* lines 145-149: stderr is read to its end, the exit error is yielded
ReadStderr(t, text) ==
  /\ pc[t] = "read_stderr"
  /\ procs' = [procs EXCEPT ![tproc[t]].stderr = text]
  /\ Goto(t, "exit_yield")
  /\ Yield(t, Append(events[t],
                     ExitError(procs[tproc[t]].returncode, text)))
  /\ Within
  /\ UNCHANGED <<timeout, sessions, objs, nlines>>

\* line 145: reading the stderr pipe fails; nothing catches the exception
ReadStderrRaises(t) ==
  /\ pc[t] = "read_stderr"
  /\ Return(t, "OSError")
  /\ Within
  /\ UNCHANGED <<timeout, sessions, objs, procs, nlines, events>>

\* mutant: after the exit error the generator goes back to reading
ExitResumeLoops(t) ==
  /\ pc[t] = "exit_yield"
  /\ Goto(t, "read")
  /\ Within
  /\ UNCHANGED <<timeout, sessions, objs, procs, nlines, events>>

\* lines 151-152: the generator resumes after the exit error
ExitResume(t) ==
  /\ pc[t] = "exit_yield"
  /\ CloseAndEnd(t, events[t])
  /\ Within
  /\ UNCHANGED <<timeout, procs, nlines>>

\* ----------------------------------------------------------- the system
Next ==
  \/ \E t \in Tasks : StartSession(t, NoKwargs) /\ Alone
  \/ \E t \in Tasks : StartSessionDone(t) /\ Alone
  \/ \E t \in Tasks : StartSessionFails(t) /\ Alone
  \/ \E p \in DOMAIN procs, code \in ExitCodes \cup {SIGTERM, SIGKILL} :
       ProcessExits(p, code) /\ Alone
  \/ \E p \in DOMAIN procs : StdoutEOF(p) /\ Alone
  \/ \E t \in Tasks, sid \in CallIds : Close(t, sid) /\ Alone
  \/ \E t \in Tasks : Tick(t) /\ Alone
  \/ \E t \in Tasks : TerminateKill(t) /\ Alone
  \/ \E t \in Tasks : CloseAfterWait(t) /\ Alone
  \/ \E t \in Tasks, sid \in CallIds : Send(t, sid) /\ Alone
  \/ \E t \in Tasks, r \in {"ok", "ConnectionResetError"} :
       SendDrain(t, r) /\ Alone
  \/ \E t \in Tasks, sid \in CallIds : StreamEvents(t, sid) /\ Alone
  \/ \E t \in Tasks, line \in StreamLines : ReadLine(t, line) /\ Alone
  \/ \E t \in Tasks : ReadRaises(t) /\ Alone
  \/ \E t \in Tasks : ReadEOF(t) /\ Alone
  \/ \E t \in Tasks : ReadTimeout(t) /\ Alone
  \/ \E t \in Tasks : TimeoutTerminate(t) /\ Alone
  \/ \E t \in Tasks : StreamAfterWait(t) /\ Alone
  \/ \E t \in Tasks : ExcResume(t) /\ Alone
  \/ \E t \in Tasks : WaitExit(t) /\ Alone
  \/ \E t \in Tasks, text \in StderrTexts : ReadStderr(t, text) /\ Alone
  \/ \E t \in Tasks : ExitResume(t) /\ Alone

\* the program, every read of the stderr pipe succeeding
Spec == Init /\ [][Next]_vars

\* the program with a stderr pipe whose read can fail
NextIO == Next \/ \E t \in Tasks : ReadStderrRaises(t) /\ Alone

SpecIO == Init /\ [][NextIO]_vars

\* ------------------------------------------------- the synchronous calls
\* a synchronous call o(a) ends with outcome out; it changes nothing else
Call(o, a, out) ==
  /\ ret' = [op |-> o, arg |-> a, out |-> out]
  /\ UNCHANGED <<timeout, sessions, objs, procs, nlines, ncalls, pc, op, arg,
                 tproc, waited, events, result, config, environ, on_path>>

\* is_available(): lines 50-53
IsAvailable == IF ~on_path THEN FALSE ELSE Truthy(GetAuthToken(environ))

CallIsAvailable == Call("is_available", None, IsAvailable)

CallIsValidOpenaiApiKey(token) ==
  Call("is_valid_openai_api_key", token, IsValidOpenaiApiKey(token))

CallGetDeprecatedAuthToken ==
  Call("get_deprecated_auth_token", None, GetDeprecatedAuthToken(environ))

CallGetAuthToken == Call("get_auth_token", None, GetAuthToken(environ))

CallGetAuthTokenSource ==
  Call("get_auth_token_source", None, GetAuthTokenSource(environ))

CallRequireAuthToken ==
  Call("require_auth_token", None, RequireAuthToken(environ))

\* line 133 of stream_events: a stdout line is stripped and parsed
CallParseOutputLine(line) ==
  Call("_parse_output_line", Strip(line), ParseOutputLine(Strip(line)))

\* codex_security_config.to_codex_args(): the argument list made by the
\* module security, taken as it comes
CodexSecurityArgs == <<"codex_security_args">>

\* create_client(project_dir, spec_dir, model): the credential is required,
\* then the client under study is constructed
CreateClient(model, project_dir) ==
  /\ procs = <<>>
  /\ \A t \in Tasks : pc[t] = "idle"
  /\ LET r == RequireAuthToken(environ) IN
     IF r.kind = "raise"
     THEN /\ ret' = [op |-> "create_client", arg |-> model, out |-> r]
          /\ UNCHANGED <<config, timeout>>
     ELSE /\ ret' = [op |-> "create_client", arg |-> model,
                     out |-> Returned("CodexClientAdapter")]
          /\ config' = [model |-> IF model # "" THEN model ELSE "gpt-5.2-codex",
                        workdir |-> IF project_dir # "" THEN project_dir ELSE "cwd",
                        bypass_sandbox |-> FALSE,
                        extra_args |-> CodexSecurityArgs]
          /\ timeout' = DefaultTimeout
  /\ UNCHANGED <<sessions, objs, procs, nlines, ncalls, pc, op, arg, tproc,
                 waited, events, result, environ, on_path>>

\* credential resolution and the line parser, called in any environment
NextCalls ==
  \/ CallIsAvailable /\ Alone
  \/ \E token \in {None} \cup {Some(k) : k \in Keys} :
       CallIsValidOpenaiApiKey(token) /\ Alone
  \/ CallGetDeprecatedAuthToken /\ Alone
  \/ CallGetAuthToken /\ Alone
  \/ CallGetAuthTokenSource /\ Alone
  \/ CallRequireAuthToken /\ Alone
  \/ \E line \in Lines : CallParseOutputLine(line) /\ Alone

SpecCalls == InitCalls /\ [][NextCalls]_vars

\* client construction and session start, in any environment
NextHost ==
  \/ CallIsAvailable /\ Alone
  \/ \E model \in {"", "o3"}, project_dir \in {"", "/project"} :
       CreateClient(model, project_dir) /\ Alone
  \/ \E t \in Tasks, kwargs \in Kwargs : StartSession(t, kwargs) /\ Alone
  \/ \E t \in Tasks : StartSessionDone(t) /\ Alone
  \/ \E t \in Tasks : StartSessionFails(t) /\ Alone

SpecHost == InitHost /\ [][NextHost]_vars

\* -------------------------------------------- streams under fair scheduling
\* a client with a read timeout
InitLive ==
  /\ timeout = DefaultTimeout
  /\ config = DefaultConfig
  /\ environ = Env({AuthVar}, K_test)
  /\ on_path = TRUE
  /\ Constructed

\* sessions are started and streamed; nothing else is called
NextLive ==
  \/ \E t \in Tasks : StartSession(t, NoKwargs) /\ Alone
  \/ \E t \in Tasks : StartSessionDone(t) /\ Alone
  \/ \E t \in Tasks : StartSessionFails(t) /\ Alone
  \/ \E p \in DOMAIN procs, code \in ExitCodes \cup {SIGTERM, SIGKILL} :
       ProcessExits(p, code) /\ Alone
  \/ \E p \in DOMAIN procs : StdoutEOF(p) /\ Alone
  \/ \E t \in Tasks : Tick(t) /\ Alone
  \/ \E t \in Tasks : TerminateKill(t) /\ Alone
  \/ \E t \in Tasks, sid \in CallIds : StreamEvents(t, sid) /\ Alone
  \/ \E t \in Tasks, line \in StreamLines : ReadLine(t, line) /\ Alone
  \/ \E t \in Tasks : ReadRaises(t) /\ Alone
  \/ \E t \in Tasks : ReadEOF(t) /\ Alone
  \/ \E t \in Tasks : ReadTimeout(t) /\ Alone
  \/ \E t \in Tasks : TimeoutTerminate(t) /\ Alone
  \/ \E t \in Tasks : StreamAfterWait(t) /\ Alone
  \/ \E t \in Tasks : ExcResume(t) /\ Alone
  \/ \E t \in Tasks : WaitExit(t) /\ Alone
  \/ \E t \in Tasks, text \in StderrTexts : ReadStderr(t, text) /\ Alone
  \/ \E t \in Tasks : ExitResume(t) /\ Alone

\* the kernel ends a process that was sent SIGKILL
Killed(p) == p \in DOMAIN procs /\ HasSignal(p, "SIGKILL") /\ ProcessExits(p, SIGKILL)

\* the event loop: time passes for a pending wait_for, a coroutine whose await
\* has completed runs on, the consumer pulls the next event after each yield,
\* a killed process exits. Nothing obliges a child to write, to close its
\* output or to exit on its own or on SIGTERM.
Scheduling ==
  /\ \A t \in Tasks :
       /\ WF_vars(Tick(t) /\ Alone)
       /\ WF_vars(ReadTimeout(t) /\ Alone)
       /\ WF_vars(ReadEOF(t) /\ Alone)
       /\ WF_vars(TimeoutTerminate(t) /\ Alone)
       /\ WF_vars(TerminateKill(t) /\ Alone)
       /\ WF_vars(StreamAfterWait(t) /\ Alone)
       /\ WF_vars(ExcResume(t) /\ Alone)
       /\ WF_vars(WaitExit(t) /\ Alone)
       /\ WF_vars(\E text \in StderrTexts : ReadStderr(t, text) /\ Alone)
       /\ WF_vars(ExitResume(t) /\ Alone)
  /\ \A p \in 1..(MaxCalls + 1) : WF_vars(Killed(p) /\ Alone)

SpecLive == InitLive /\ [][NextLive]_vars /\ Scheduling

\* ------------------------------------------------ client.py: the adapter
TextBlock(text) == [block |-> "TextBlock", text |-> text]
ToolUseBlock(name, input) == [block |-> "ToolUseBlock", name |-> name, input |-> input]
ToolResultBlock(content, is_error) ==
  [block |-> "ToolResultBlock", content |-> content, is_error |-> is_error]
AssistantMessage(content) == [message |-> "AssistantMessage", content |-> content]
UserMessage(content) == [message |-> "UserMessage", content |-> content]

\* the events a client may hand to the adapter; the values of text, content,
\* raw, name, tool and error are str
AdapterEvents ==
  { SessionStart(1), SessionEnd(1),
    Ev("text", [text |-> "t", content |-> "c"]),
    Ev("text", [text |-> "", content |-> "c", raw |-> "r"]),
    Ev("text", [content |-> "", raw |-> "r"]),
    Ev("text", [content |-> ""]),
    Ev("text", [text |-> "", content |-> "", raw |-> ""]),
    Ev("text", [type |-> "message"]),
    Ev("tool_start", [name |-> "grep", tool |-> "t", input |-> [pattern |-> "foo"]]),
    Ev("tool_start", [name |-> "", tool |-> "t"]),
    Ev("tool_start", [type |-> "tool_use"]),
    Ev("tool_result", [content |-> "ok", is_error |-> TRUE]),
    Ev("tool_result", [type |-> "tool_result"]),
    Ev("error", [type |-> "error", error |-> "bad"]),
    Ev("error", [error |-> ""]),
    Ev("error", [type |-> "error"]),
    TimeoutError, ExitError(2, <<"boom">>) }

\* data.get(key) is truthy: the key is there and its str is not empty
HasText(data, key) == key \in DOMAIN data /\ data[key] # ""

\* data.get(key): None, or the value
GetOpt(data, key) == IF key \in DOMAIN data THEN Some(data[key]) ELSE None

\* _extract_text: the first truthy of text, content, raw, or ""
RECURSIVE ExtractTextFrom(_, _, _)
ExtractTextFrom(data, keys, i) ==
  IF i > Len(keys) THEN ""
  ELSE IF HasText(data, keys[i]) THEN data[keys[i]]
  ELSE ExtractTextFrom(data, keys, i + 1)

ExtractText(event) == ExtractTextFrom(event.data, <<"text", "content", "raw">>, 1)

\* mutant: an error event without an error text gives no message
EventToMessageErrorDropped(event) ==
  CASE event.type = "text" ->
         LET text == ExtractText(event) IN
         IF text # "" THEN Some(AssistantMessage(<<TextBlock(text)>>)) ELSE None
    [] event.type = "tool_start" ->
         LET name == IF HasText(event.data, "name") THEN event.data.name
                     ELSE IF HasText(event.data, "tool") THEN event.data.tool
                     ELSE "tool"
         IN Some(AssistantMessage(<<ToolUseBlock(name, GetOpt(event.data, "input"))>>))
    [] event.type = "tool_result" ->
         Some(UserMessage(<<ToolResultBlock(
                GetOpt(event.data, "content"),
                "is_error" \in DOMAIN event.data /\ event.data.is_error)>>))
    [] event.type = "error" ->
         IF HasText(event.data, "error")
         THEN Some(AssistantMessage(<<TextBlock(event.data.error)>>))
         ELSE None
    [] OTHER -> None

\* _event_to_message: None, or the message for the event
EventToMessage(event) ==
  CASE event.type = "text" ->
         LET text == ExtractText(event) IN
         IF text # "" THEN Some(AssistantMessage(<<TextBlock(text)>>)) ELSE None
    [] event.type = "tool_start" ->
         LET name == IF HasText(event.data, "name") THEN event.data.name
                     ELSE IF HasText(event.data, "tool") THEN event.data.tool
                     ELSE "tool"
         IN Some(AssistantMessage(<<ToolUseBlock(name, GetOpt(event.data, "input"))>>))
    [] event.type = "tool_result" ->
         Some(UserMessage(<<ToolResultBlock(
                GetOpt(event.data, "content"),
                "is_error" \in DOMAIN event.data /\ event.data.is_error)>>))
    [] event.type = "error" ->
         LET error_text == IF HasText(event.data, "error") THEN event.data.error
                           ELSE "Unknown error"
         IN Some(AssistantMessage(<<TextBlock(error_text)>>))
    [] OTHER -> None

CallEventToMessage(event) == Call("_event_to_message", event, EventToMessage(event))

\* the task the adapter's coroutines run in
AdapterTask == "A"

\* the adapter after a close of the tracked session has returned (lines 66, 86)
Cleared(o) ==
  [adapter EXCEPT !.session_id = 0, !.pc = "idle", !.op = o, !.result = "ok"]

\* the adapter calls o and suspends at label l
Calls(o, l) ==
  [adapter EXCEPT !.pc = l, !.op = o, !.result = "pending", !.messages = <<>>]

\* mutant: query starts the new session without closing the tracked one
QueryKeepsOld ==
  /\ adapter.pc = "idle"
  /\ StartSession(AdapterTask, NoKwargs)
  /\ adapter' = Calls("query", "query_start")

\* query, lines 72-74 up to the first suspension: the tracked session is
\* closed, or with none tracked a session is started
Query ==
  /\ adapter.pc = "idle"
  /\ IF adapter.session_id # 0
     THEN /\ Close(AdapterTask, adapter.session_id)
          /\ adapter' = Calls("query", "query_close")
     ELSE /\ StartSession(AdapterTask, NoKwargs)
          /\ adapter' = Calls("query", "query_start")

\* query, line 73 -> 74: close has returned, the new session is started
QueryClosed ==
  /\ adapter.pc = "query_close"
  /\ StartSession(AdapterTask, NoKwargs)
  /\ adapter' = [adapter EXCEPT !.pc = "query_start"]

\* query, line 74: start_session returns the id, which is now tracked
QueryStarted ==
  /\ adapter.pc = "query_start"
  /\ StartSessionDone(AdapterTask)
  /\ adapter' = [adapter EXCEPT !.session_id = arg[AdapterTask], !.pc = "idle",
                                !.result = "ok"]

\* query, line 74: start_session raises, the tracked id stays as it was
QueryFails ==
  /\ adapter.pc = "query_start"
  /\ StartSessionFails(AdapterTask)
  /\ adapter' = [adapter EXCEPT !.pc = "idle", !.result = "ConnectionResetError"]

\* lines 80-83: the event the stream has just yielded becomes a message and
\* is yielded, or is skipped; a stream that is over leads on to line 85
Consumed(new) ==
  LET message == IF new = <<>> THEN None ELSE EventToMessage(new[1]) IN
  IF pc'[AdapterTask] = "idle"
  THEN [adapter EXCEPT !.pc = "recv_done", !.messages = @ \o message]
  ELSE IF message # None
  THEN [adapter EXCEPT !.pc = "recv_yield", !.messages = @ \o message]
  ELSE [adapter EXCEPT !.pc = "recv"]

\* the events task t has yielded in this step
Yielded(t) == SubSeq(events'[t], Len(events[t]) + 1, Len(events'[t]))

\* receive_response, lines 77-80: RuntimeError with no session tracked; else
\* the stream of the tracked session is begun, whose session_start is skipped
ReceiveResponse ==
  /\ adapter.pc = "idle"
  /\ IF adapter.session_id = 0
     THEN /\ adapter' = [adapter EXCEPT !.op = "receive_response",
                                        !.result = "RuntimeError",
                                        !.messages = <<>>]
          /\ UNCHANGED <<timeout, sessions, objs, procs, nlines, ncalls, pc, op,
                         arg, tproc, waited, events, result, host>>
     ELSE /\ StreamEvents(AdapterTask, adapter.session_id)
          /\ adapter' =
               IF pc'[AdapterTask] = "idle"
               THEN [adapter EXCEPT !.op = "receive_response",
                                    !.result = result'[AdapterTask],
                                    !.messages = <<>>]
               ELSE [adapter EXCEPT !.op = "receive_response", !.pc = "recv",
                                    !.result = "pending", !.messages = <<>>]

\* line 80: an await inside stream_events completes and the stream runs on
\* to its next event or to its end
StreamRuns ==
  /\ adapter.pc = "recv"
  /\ \/ \E line \in StreamLines : ReadLine(AdapterTask, line)
     \/ ReadRaises(AdapterTask)
     \/ ReadEOF(AdapterTask)
     \/ ReadTimeout(AdapterTask)
     \/ StreamAfterWait(AdapterTask)
     \/ WaitExit(AdapterTask)
     \/ \E text \in StderrTexts : ReadStderr(AdapterTask, text)
  /\ adapter' = Consumed(Yielded(AdapterTask))

\* lines 83 -> 80: the consumer asks for the next message; the stream resumes
\* after the error event it had yielded
StreamResumes ==
  /\ adapter.pc = "recv_yield"
  /\ \/ ExcResume(AdapterTask)
     \/ TimeoutTerminate(AdapterTask)
     \/ ExitResume(AdapterTask)
  /\ adapter' = Consumed(Yielded(AdapterTask))

\* lines 83 -> 80: the consumer asks for the next message; the stream is
\* back in its read
Pull ==
  /\ adapter.pc = "recv_yield"
  /\ pc[AdapterTask] = "read"
  /\ adapter' = [adapter EXCEPT !.pc = "recv"]
  /\ UNCHANGED <<timeout, sessions, objs, procs, nlines, ncalls, pc, op, arg,
                 tproc, waited, events, result, host>>

\* the consumer drops receive_response at a message: both generators are
\* closed at their yield, and nothing after it runs
Abandon ==
  /\ adapter.pc = "recv_yield"
  /\ adapter' = [adapter EXCEPT !.pc = "idle", !.result = "GeneratorExit"]
  /\ Return(AdapterTask, "GeneratorExit")
  /\ Within
  /\ UNCHANGED <<timeout, sessions, objs, procs, nlines, events>>

\* receive_response, lines 85-86: the stream is over, the session is closed
\* and no longer tracked
ReceiveClose ==
  /\ adapter.pc = "recv_done"
  /\ Close(AdapterTask, adapter.session_id)
  /\ adapter' = IF pc'[AdapterTask] = "idle" THEN Cleared("receive_response")
                ELSE [adapter EXCEPT !.pc = "recv_close"]

\* __aexit__, lines 64-66: the tracked session, if any, is closed
Aexit ==
  /\ adapter.pc = "idle"
  /\ IF adapter.session_id = 0
     THEN /\ adapter' = [adapter EXCEPT !.op = "__aexit__", !.result = "ok"]
          /\ UNCHANGED <<timeout, sessions, objs, procs, nlines, ncalls, pc, op,
                         arg, tproc, waited, events, result, host>>
     ELSE /\ Close(AdapterTask, adapter.session_id)
          /\ adapter' = IF pc'[AdapterTask] = "idle" THEN Cleared("__aexit__")
                        ELSE Calls("__aexit__", "exit_close")

\* lines 65-66, 73, 85-86: a close that had to wait returns to the adapter
Closed ==
  /\ adapter.pc \in {"query_close", "recv_close", "exit_close"}
  /\ CloseAfterWait(AdapterTask)
  /\ adapter' = IF adapter.pc = "query_close" THEN adapter ELSE Cleared(adapter.op)

\* the adapter on a default client, whose read timeout is 600
InitAdapter ==
  /\ timeout = DefaultTimeout
  /\ config = DefaultConfig
  /\ environ = Env({AuthVar}, K_test)
  /\ on_path = TRUE
  /\ Constructed

\* one adapter on one client, called by one task
NextAdapter ==
  \/ Query
  \/ QueryClosed
  \/ QueryStarted
  \/ QueryFails
  \/ ReceiveResponse
  \/ StreamRuns
  \/ StreamResumes
  \/ Pull
  \/ Abandon
  \/ ReceiveClose
  \/ Aexit
  \/ Closed
  \/ Tick(AdapterTask) /\ Alone
  \/ TerminateKill(AdapterTask) /\ Alone
  \/ \E p \in DOMAIN procs, code \in ExitCodes \cup {SIGTERM, SIGKILL} :
       ProcessExits(p, code) /\ Alone
  \/ \E p \in DOMAIN procs : StdoutEOF(p) /\ Alone

SpecAdapter == InitAdapter /\ [][NextAdapter]_vars

\* the adapter, and one call of _event_to_message on any event
NextMessages ==
  \/ NextAdapter
  \/ \E event \in AdapterEvents :
       ret = NoCall /\ CallEventToMessage(event) /\ Alone

SpecMessages == InitAdapter /\ [][NextMessages]_vars

\* ------------------------------------------------------------ the claims
\* a stream_events call that found its session
IsStream(t) == op[t] = "stream_events" /\ result[t] # "ValueError"

\* the process of the session a stream was called on
StreamProc(t) == objs[arg[t]].process

Last(s) == s[Len(s)]

\* the stream has yielded session_end
Ended(t) == events[t] # <<>> /\ Last(events[t]).type = "session_end"

IsExitError(e) == e.type = "error" /\ "returncode" \in DOMAIN e.data

\* an error event made by stream_events for a failure of the read loop
IsLoopFailure(e) ==
  /\ e.type = "error"
  /\ DOMAIN e.data = {"error"}
  /\ e.data.error \in {"timeout waiting for output", "Separator is not found",
                       "object has no attribute 'get'"}

\* session_start 0, content 1, the exit-code error 2, session_end 3
Phase(e) ==
  CASE e.type = "session_start" -> 0
    [] e.type = "session_end" -> 3
    [] IsExitError(e) -> 2
    [] OTHER -> 1

Indexes(t, P(_)) == {i \in 1..Len(events[t]) : P(events[t][i])}

C2_NoExceptionAfterStart ==
  \A t \in Tasks : (op[t] = "stream_events" /\ events[t] # <<>>) =>
    LET evs == events[t]
        fails == Indexes(t, IsLoopFailure)
    IN
    /\ result[t] \in {"pending", "ok"}
    /\ Cardinality(fails) <= 1
    /\ \A i \in fails : \A j \in (i + 1)..Len(evs) : Phase(evs[j]) >= 2
    /\ pc[t] = "idle" => Last(evs) = SessionEnd(arg[t])

\* C3: the order in a stream is session_start, content events, the optional
\* exit-code error, session_end; nothing follows the exit-code error but
\* session_end, and nothing follows session_end.
C3_Order ==
  \A t \in Tasks : IsStream(t) =>
    LET evs == events[t] IN
    /\ Phase(evs[1]) = 0
    /\ \A i, j \in 1..Len(evs) : i < j =>
         /\ Phase(evs[i]) <= Phase(evs[j])
         /\ Phase(evs[i]) = Phase(evs[j]) => Phase(evs[i]) = 1

\* a stream with a content event from a line, a failure of the loop, the exit
\* error and session_end
C3_Witness ==
  \E t \in Tasks :
    /\ IsStream(t) /\ Ended(t) /\ Len(events[t]) >= 5
    /\ events[t][2].type = "error" /\ ~IsLoopFailure(events[t][2])
    /\ IsLoopFailure(events[t][3])
    /\ IsExitError(events[t][4])

\* C4: a timed-out read (timeout > 0) gives the error "timeout waiting for
\* output", the termination policy is applied before anything else, no line is
\* read after it, and the process has exited when session_end is yielded; with
\* timeout 0 no timeout error is produced.
C4_Timeout ==
  \A t \in Tasks : IsStream(t) =>
    LET evs == events[t]
        touts == {i \in 1..Len(evs) : evs[i] = TimeoutError}
    IN
    /\ timeout = 0 => touts = {}
    /\ pc[t] = "timeout_yield" => Last(evs) = TimeoutError
    /\ Cardinality(touts) <= 1
    /\ \A i \in touts :
         /\ \A j \in (i + 1)..Len(evs) : Phase(evs[j]) >= 2
         /\ pc[t] # "timeout_yield" =>
              \/ ~Running(StreamProc(t))
              \/ HasSignal(StreamProc(t), "SIGTERM") /\ pc[t] \in {"term_wait", "kill_wait"}
         /\ Ended(t) => ~Running(StreamProc(t))

\* a stream that timed out, whose process was sent SIGTERM and has ended
C4_Witness ==
  \E t \in Tasks :
    /\ IsStream(t) /\ Ended(t)
    /\ events[t][2] = TimeoutError
    /\ procs[StreamProc(t)].signals = <<"SIGTERM">>
    /\ procs[StreamProc(t)].returncode = SIGTERM

\* C5: the exit-code error is yielded iff the exit code is not 0, at most
\* once, just before session_end, with the exit code and the stripped stderr;
\* no stdout, exit code 2, stderr "boom" gives session_start, error, session_end.
C5_ExitError ==
  \A t \in Tasks : IsStream(t) =>
    LET evs == events[t]
        exits == Indexes(t, IsExitError)
        p == StreamProc(t)
    IN
    /\ Cardinality(exits) <= 1
    /\ \A i \in exits :
         /\ evs[i].data.returncode = procs[p].returncode
         /\ evs[i].data.returncode # 0
         /\ evs[i].data.error = "process exited with error"
         /\ evs[i].data.stderr =
              (IF procs[p].stderr = <<" ", "boom", "\n">> THEN <<"boom">> ELSE <<>>)
         /\ \/ i = Len(evs) /\ pc[t] = "exit_yield"
            \/ i = Len(evs) - 1 /\ Last(evs).type = "session_end"
    /\ Ended(t) => (exits # {} <=> procs[p].returncode # 0)
    /\ (Ended(t) /\ procs[p].returncode = 2 /\ procs[p].stderr = <<" ", "boom", "\n">>
          /\ \A i \in 1..Len(evs) : Phase(evs[i]) # 1)
         => evs = << SessionStart(arg[t]),
                     Ev("error", [error |-> "process exited with error",
                                  returncode |-> 2, stderr |-> <<"boom">>]),
                     SessionEnd(arg[t]) >>

\* the stream of a process killed by a signal: session_start, error, session_end
C5_Witness ==
  \E t \in Tasks :
    /\ IsStream(t) /\ Ended(t) /\ Len(events[t]) = 3
    /\ IsExitError(events[t][2])
    /\ events[t][2].data.returncode < 0
    /\ events[t][2].data.stderr = <<"boom">>

C6_EndedIsClosed ==
  \A t \in Tasks :
    /\ (IsStream(t) /\ Ended(t)) =>
         /\ arg[t] \notin DOMAIN sessions
         /\ objs[arg[t]].closed
         /\ ~Running(StreamProc(t))
    /\ (op[t] = "stream_events" /\ result[t] = "ValueError") =>
         events[t] = <<>> /\ pc[t] = "idle"

C6_NotFoundStep ==
  \A t \in Tasks : \A sid \in CallIds :
    ((Send(t, sid) \/ StreamEvents(t, sid)) /\ sid \notin DOMAIN sessions) =>
      /\ result'[t] = "ValueError"
      /\ pc'[t] = "idle"
      /\ events'[t] = <<>>
      /\ UNCHANGED <<sessions, objs, procs>>

\* C6: when session_end is yielded the session id is out of the table, its
\* object closed and its process exited; send or stream_events on an id that
\* is not in the table (never started, or closed) raises ValueError, and such a
\* stream_events yields nothing.
C6_NotRestartable == []C6_EndedIsClosed /\ [][C6_NotFoundStep]_vars

\* one task's stream of a session has ended, another's later call on the same
\* id raised ValueError
C6_Witness ==
  \E t, u \in Tasks :
    /\ t # u /\ IsStream(t) /\ Ended(t)
    /\ op[u] \in {"send", "stream_events"} /\ arg[u] = arg[t]
    /\ result[u] = "ValueError"
    /\ ncalls = 3

\* the id has an open entry in the session table
OpenEntry(sid) == sid \in DOMAIN sessions /\ ~objs[sessions[sid]].closed

\* C7: every running process is referenced by an entry of the session table,
\* also when start_session fails after spawning (a start_session still in
\* progress is not counted).
C7_RunningIsOwned ==
  \A p \in DOMAIN procs :
    (Running(p) /\ ~\E t \in Tasks : pc[t] = "start_drain" /\ tproc[t] = p) =>
      \E sid \in DOMAIN sessions : objs[sessions[sid]].process = p

C8_Waiting ==
  \A t \in Tasks :
    /\ pc[t] = "term_wait" => HasSignal(tproc[t], "SIGTERM")
    /\ pc[t] = "kill_wait" => HasSignal(tproc[t], "SIGKILL")

C8_CloseStep ==
  \A t \in Tasks :
    /\ \A sid \in CallIds : (Close(t, sid) /\ OpenEntry(sid)) =>
         LET p == objs[sessions[sid]].process IN
         IF Running(p)
         THEN /\ pc'[t] = "term_wait"
              /\ procs'[p].signals = Append(procs[p].signals, "SIGTERM")
              /\ sid \in DOMAIN sessions'
         ELSE /\ pc'[t] = "idle" /\ result'[t] = "ok"
              /\ sid \notin DOMAIN sessions'
              /\ objs'[sid].closed
              /\ procs' = procs
    /\ (op[t] = "close" /\ pc[t] # "idle" /\ pc'[t] = "idle") =>
         /\ result'[t] = "ok"
         /\ procs'[tproc[t]].returncode # NoneRC
         /\ arg[t] \notin DOMAIN sessions'
         /\ objs'[arg[t]].closed

\* C8: when close returns for an open session its process has exited (it was
\* sent SIGTERM if it was running, and SIGKILL before a wait without limit),
\* the session object is marked closed and the id is out of the table.
C8_CloseReaps == []C8_Waiting /\ [][C8_CloseStep]_vars

\* a close that returned after the process had to be killed
C8_Witness ==
  \E t \in Tasks :
    /\ op[t] = "close" /\ pc[t] = "idle" /\ result[t] = "ok"
    /\ arg[t] \in DOMAIN objs /\ objs[arg[t]].closed
    /\ arg[t] \notin DOMAIN sessions
    /\ procs[objs[arg[t]].process].signals = <<"SIGTERM", "SIGKILL">>
    /\ procs[objs[arg[t]].process].returncode = SIGKILL

C9_NeverRaises ==
  \A t \in Tasks : op[t] = "close" => result[t] \in {"pending", "ok"}

C9_CloseStep ==
  \A t \in Tasks :
    /\ \A sid \in CallIds : (Close(t, sid) /\ ~OpenEntry(sid)) =>
         /\ result'[t] = "ok" /\ pc'[t] = "idle"
         /\ UNCHANGED <<sessions, objs, procs>>
    /\ (CloseAfterWait(t) \/ \E sid \in CallIds : Close(t, sid) /\ pc'[t] = "idle")
         => arg'[t] \notin DOMAIN sessions'

\* C9: close on an id that is unknown or already closed raises nothing, sends
\* no signal and leaves the table as it is; a close that has returned leaves
\* its id not open, so a second close in sequence changes nothing; no close
\* ever raises.
C9_CloseIdempotent == []C9_NeverRaises /\ [][C9_CloseStep]_vars

\* close on an id never returned, and close on an id already closed by the
\* other task
C9_Witness ==
  \E t, u \in Tasks :
    /\ t # u /\ op[t] = "close" /\ op[u] = "close"
    /\ pc[t] = "idle" /\ pc[u] = "idle"
    /\ arg[t] = 0
    /\ arg[u] \in DOMAIN objs /\ objs[arg[u]].closed
    /\ ncalls = 3

C10_Signals ==
  /\ \A p \in DOMAIN procs : \A i \in DOMAIN procs[p].signals :
       procs[p].signals[i] = "SIGKILL" =>
         \E j \in 1..(i - 1) : procs[p].signals[j] = "SIGTERM"
  /\ \A t \in Tasks :
       /\ pc[t] = "term_wait" => waited[t] <= GracePeriod
       /\ pc[t] = "kill_wait" =>
            /\ HasSignal(tproc[t], "SIGTERM")
            /\ HasSignal(tproc[t], "SIGKILL")

C10_TerminateStep ==
  /\ \A p \in DOMAIN procs : procs'[p].signals # procs[p].signals =>
       /\ Running(p)
       /\ \E t \in Tasks :
            /\ tproc'[t] = p
            /\ \/ /\ procs'[p].signals = Append(procs[p].signals, "SIGTERM")
                  /\ pc[t] \in {"idle", "timeout_yield"}
                  /\ pc'[t] = "term_wait"
                  /\ waited'[t] = 0
               \/ /\ procs'[p].signals = Append(procs[p].signals, "SIGKILL")
                  /\ pc[t] = "term_wait"
                  /\ waited[t] = GracePeriod
                  /\ pc'[t] = "kill_wait"
  /\ \A t \in Tasks :
       (pc[t] \in {"term_wait", "kill_wait"} /\ pc'[t] \notin {"term_wait", "kill_wait"})
         => procs[tproc[t]].returncode # NoneRC

\* C10: the termination policy sends no signal to an exited process; it sends
\* SIGTERM, waits at most the grace period of 5, sends SIGKILL only when the
\* grace period has expired with the process still running, never before a
\* SIGTERM, and returns only once the process has exited.
C10_TerminationPolicy == []C10_Signals /\ [][C10_TerminateStep]_vars

\* a process that ignored SIGTERM for the grace period has just been killed
C10_Witness ==
  \E t \in Tasks :
    /\ pc[t] = "kill_wait"
    /\ Running(tproc[t])
    /\ procs[tproc[t]].signals = <<"SIGTERM", "SIGKILL">>

\* a session object marked closed is out of the table
C11_ClosedIsGone ==
  \A sid \in DOMAIN objs : objs[sid].closed => sid \notin DOMAIN sessions

C11_SendStep ==
  \A t \in Tasks : \A sid \in CallIds :
    (Send(t, sid) /\ (sid \notin DOMAIN objs \/ objs[sid].closed)) =>
      /\ result'[t] = "ValueError"
      /\ pc'[t] = "idle"
      /\ UNCHANGED <<sessions, objs, procs>>

\* C11: send on an id that start_session never returned, or whose session was
\* closed (by close or by a stream that completed), raises ValueError, writes
\* to no process and leaves the session table as it is.
C11_SendNotFound == []C11_ClosedIsGone /\ [][C11_SendStep]_vars

\* a send that raised ValueError on a session another task had closed with
\* close, terminating its process
C11_Witness ==
  \E t, u \in Tasks :
    /\ op[t] = "send" /\ result[t] = "ValueError"
    /\ arg[t] \in DOMAIN objs /\ objs[arg[t]].closed
    /\ op[u] = "close" /\ arg[u] = arg[t] /\ pc[u] = "idle"
    /\ procs[objs[arg[t]].process].signals # <<>>

C12_SendStep ==
  \A t \in Tasks : \A sid \in CallIds :
    (Send(t, sid) /\ OpenEntry(sid)) =>
      LET p == objs[sessions[sid]].process IN
      IF procs[p].stdin_closed
      THEN /\ result'[t] = "RuntimeError"
           /\ pc'[t] = "idle"
           /\ procs' = procs
      ELSE /\ procs'[p].stdin = procs[p].stdin \o <<"message", "\n">>
           /\ pc'[t] = "send_drain"

\* C12: send on an open session whose stdin is closed (as start_session
\* leaves it) raises RuntimeError and writes nothing; with a writable stdin it
\* writes the message and a newline and flushes.
C12_SendUnavailable == [][C12_SendStep]_vars

C13_Table ==
  /\ \A sid \in DOMAIN sessions :
       /\ sessions[sid] \in DOMAIN objs
       /\ objs[sessions[sid]].session_id = sid
       /\ objs[sessions[sid]].process \in DOMAIN procs
  /\ \A a, b \in DOMAIN sessions :
       objs[sessions[a]].process = objs[sessions[b]].process => a = b

C13_StartStep ==
  /\ Len(procs') # Len(procs) =>
       /\ Len(procs') = Len(procs) + 1
       /\ UNCHANGED <<sessions, objs>>
       /\ \E t \in Tasks :
            /\ pc[t] = "idle" /\ pc'[t] = "start_drain"
            /\ op'[t] = "start_session" /\ tproc'[t] = Len(procs')
  /\ \A t \in Tasks : StartSessionDone(t) =>
       LET sid == arg[t] IN
       /\ result'[t] = "ok"
       /\ sid \notin DOMAIN objs
       /\ sid \notin DOMAIN sessions
       /\ DOMAIN sessions' = DOMAIN sessions \cup {sid}
       /\ \A x \in DOMAIN sessions :
            sessions'[x] = sessions[x] /\ objs'[sessions[x]] = objs[sessions[x]]
       /\ objs'[sessions'[sid]] =
            [session_id |-> sid, process |-> tproc[t],
             workdir |-> procs[tproc[t]].cwd, closed |-> FALSE]
       /\ Len(procs') = Len(procs)

\* C13: a start_session that succeeds has spawned exactly one process, returns
\* an id not returned before and records under it one new open entry with
\* that process and the working directory it was spawned in, all other
\* entries unchanged; no two entries of the table share a process.
C13_StartRegisters == []C13_Table /\ [][C13_StartStep]_vars

\* two sessions open at once, each with its own running process
C13_Witness ==
  \E a, b \in DOMAIN sessions :
    /\ a # b
    /\ ~objs[sessions[a]].closed /\ ~objs[sessions[b]].closed
    /\ Running(objs[sessions[a]].process)
    /\ Running(objs[sessions[b]].process)
    /\ \A t \in Tasks : op[t] = "start_session" /\ result[t] = "ok"

\* the event the mapping of C14 assigns to a non-empty stripped line
C14_Expected(line) ==
  LET j == JsonLoads(line)
      ty == IF j.ok /\ j.isdict /\ "type" \in DOMAIN j.obj THEN j.obj.type
            ELSE ""
  IN
  IF ~j.ok THEN Ev("text", [content |-> line])
  ELSE CASE ty = "message" ->
              Ev("text", [content |-> IF "content" \in DOMAIN j.obj
                                      THEN j.obj.content ELSE ""])
         [] ty = "tool_use" -> Ev("tool_start", j.obj)
         [] ty = "tool_result" -> Ev("tool_result", j.obj)
         [] ty = "error" -> Ev("error", j.obj)
         [] OTHER -> Ev("text", [raw |-> line])

\* C14: every non-empty line gives exactly one event: text with the line as
\* content when it is not JSON; otherwise by the type field: message -> text
\* with the content, tool_use -> tool_start, tool_result -> tool_result and
\* error -> error with the decoded object, anything else or no type -> text
\* with the line under raw.
C14_LineToEvent ==
  (ret.op = "_parse_output_line" /\ ret.arg # <<>>) =>
    /\ ret.out.kind = "event"
    /\ ret.out.event = C14_Expected(ret.arg)

\* the command line of process p, position by position, for configuration c
C15_CommandOf(p, c) ==
  LET cmd == procs[p].cmd
      k == IF c.bypass_sandbox THEN 3 ELSE 2
      n == Len(c.extra_args)
  IN
  /\ Len(cmd) = k + 4 + n
  /\ cmd[1] = "codex" /\ cmd[2] = "exec"
  /\ c.bypass_sandbox => cmd[3] = "--dangerously-bypass-approvals-and-sandbox"
  /\ \A i \in 1..Len(cmd) :
       cmd[i] = "--dangerously-bypass-approvals-and-sandbox" =>
         c.bypass_sandbox /\ i = 3
  /\ cmd[k + 1] = "-m" /\ cmd[k + 2] = c.model /\ cmd[k + 3] = "--json"
  /\ \A i \in 1..n : cmd[k + 3 + i] = c.extra_args[i]
  /\ cmd[Len(cmd)] = "-"
  /\ \A i \in 1..Len(cmd) : cmd[i] # Prompt

C15_Spawned ==
  \A p \in DOMAIN procs :
    /\ C15_CommandOf(p, config)
    /\ procs[p].stdin = <<Prompt, "\n">>
    /\ (\E sid \in DOMAIN objs : objs[sid].process = p) => procs[p].stdin_closed

C15_SpawnStep ==
  \A t \in Tasks : \A kwargs \in Kwargs : StartSession(t, kwargs) =>
    /\ procs'[Len(procs')].cwd =
         (IF "workdir" \in DOMAIN kwargs THEN kwargs["workdir"]
          ELSE config.workdir)
    /\ ~procs'[Len(procs')].stdin_closed

\* C15: the command line is codex exec, the bypass flag iff bypass is enabled,
\* -m and the model, --json, the extra arguments in order, and "-", a function
\* of the configuration alone; the prompt is no argument but is written once
\* to stdin with a newline, and stdin is closed when start_session returns;
\* the working directory is the override of the call if given, else the
\* client's.
C15_CommandLine == []C15_Spawned /\ [][C15_SpawnStep]_vars

\* a session started without the bypass flag, with extra arguments and a
\* working directory given in the call
C15_Witness ==
  \E sid \in DOMAIN sessions :
    LET p == objs[sessions[sid]].process IN
    /\ procs[p].cmd = <<"codex", "exec", "-m", "gpt-5.2-codex-xhigh", "--json",
                        "--x", "--a", "-">>
    /\ procs[p].cwd = "/override"
    /\ config.workdir = "cwd"
    /\ procs[p].stdin_closed

\* a credential value as C17 defines validity: sk-, then at least 20
\* characters, each alphanumeric or a hyphen, and nothing else
C17_Valid(s) ==
  /\ Len(s) >= 3 + 20
  /\ s[1] = "s" /\ s[2] = "k" /\ s[3] = "-"
  /\ \A i \in 4..Len(s) : s[i] \in KeyChars

\* the OPENAI_API_KEY of the environment is set and valid in that sense
C17_HasValidKey(env) == AuthVar \in DOMAIN env /\ C17_Valid(env[AuthVar])

\* C17: is_valid_openai_api_key is true exactly for sk- followed by at least
\* 20 alphanumeric or hyphen characters and nothing else; get_auth_token
\* returns the value of OPENAI_API_KEY exactly when it is valid, else None, and
\* get_auth_token_source reports OPENAI_API_KEY in the same cases.
C17_ValidKey ==
  /\ ret.op = "is_valid_openai_api_key" =>
       (ret.out <=> C17_Valid(OrEmpty(ret.arg)))
  /\ ret.op = "get_auth_token" =>
       ret.out = (IF C17_HasValidKey(environ) THEN Some(environ[AuthVar])
                  ELSE None)
  /\ ret.op = "get_auth_token_source" =>
       ret.out = (IF C17_HasValidKey(environ) THEN Some("OPENAI_API_KEY")
                  ELSE None)

C16_Result ==
  ret.op = "is_available" =>
    (ret.out <=> (on_path /\ C17_HasValidKey(environ)))

C16_Step == CallIsAvailable => UNCHANGED <<sessions, objs, procs>>

\* C16: is_available returns true iff the codex executable is found and a
\* valid credential is resolvable; it spawns no process and leaves the session
\* table unchanged.
C16_IsAvailable == []C16_Result /\ [][C16_Step]_vars

C18_Names(msg, word) == \E i \in 1..Len(msg) : msg[i] = word

\* the error kind of a message of require_auth_token
C18_Kind(msg) ==
  CASE msg[1] = "Invalid" /\ C18_Names(msg, "OPENAI_API_KEY") ->
         "InvalidCredential"
    [] C18_Names(msg, "CLAUDE_CODE_OAUTH_TOKEN")
         /\ C18_Names(msg, "OPENAI_API_KEY") /\ C18_Names(msg, "migrate") ->
         "DeprecatedCredential"
    [] OTHER -> "MissingCredential"

\* C18: get_auth_token never returns the value of CLAUDE_CODE_OAUTH_TOKEN;
\* require_auth_token returns the key only when OPENAI_API_KEY is valid and
\* otherwise raises one error: InvalidCredential when OPENAI_API_KEY is
\* non-empty but malformed, else DeprecatedCredential when the deprecated
\* variable is set, else MissingCredential.
C18_Deprecated ==
  /\ ret.op = "get_auth_token" =>
       /\ ret.out \in {None, EnvGet(environ, AuthVar)}
       /\ ret.out # Some(LegacyToken)
  /\ ret.op = "require_auth_token" =>
       IF C17_HasValidKey(environ)
       THEN ret.out = Returned(Some(environ[AuthVar]))
       ELSE /\ ret.out.kind = "raise"
            /\ ret.out.exc = "ValueError"
            /\ C18_Kind(ret.out.msg) =
                 (IF AuthVar \in DOMAIN environ /\ environ[AuthVar] # <<>>
                  THEN "InvalidCredential"
                  ELSE IF "CLAUDE_CODE_OAUTH_TOKEN" \in DOMAIN environ
                  THEN "DeprecatedCredential"
                  ELSE "MissingCredential")

\* the source C19 resolves the credential from, in its priority order
C19_Source(env) ==
  IF C17_HasValidKey(env) THEN Some("OPENAI_API_KEY")
  ELSE IF "CODEX_CODE_OAUTH_TOKEN" \in DOMAIN env
    THEN Some("CODEX_CODE_OAUTH_TOKEN")
  ELSE IF "CODEX_CONFIG_DIR" \in DOMAIN env THEN Some("CODEX_CONFIG_DIR")
  ELSE None

\* C19: get_auth_token resolves from OPENAI_API_KEY, CODEX_CODE_OAUTH_TOKEN,
\* CODEX_CONFIG_DIR in this order: with OPENAI_API_KEY unset and a valid
\* CODEX_CODE_OAUTH_TOKEN it returns that token, with only CODEX_CONFIG_DIR
\* naming a directory it returns the path, and get_auth_token_source names
\* the variable used.
C19_Sources ==
  AuthVar \notin DOMAIN environ =>
    /\ ret.op = "get_auth_token" =>
         ret.out = (IF C19_Source(environ) = None THEN None
                    ELSE Some(environ[C19_Source(environ)[1]]))
    /\ ret.op = "get_auth_token_source" => ret.out = C19_Source(environ)

\* C20: without a resolvable valid credential, constructing a client or
\* starting a session fails with the credential error before anything is
\* spawned: every process was spawned in an environment whose credential
\* resolves, and create_client raises when none does.
C20_NoSpawnWithoutCredential ==
  /\ \A p \in DOMAIN procs : Truthy(GetAuthToken(procs[p].environ))
  /\ (ret.op = "create_client" /\ ~Truthy(GetAuthToken(environ))) =>
       ret.out.kind = "raise"


\* another close of the same id is inside _terminate_process, at one of labels
C21_OtherClose(t, labels) ==
  \E u \in Tasks \ {t} :
    op[u] = "close" /\ arg[u] = arg'[t] /\ pc[u] \in labels

C21_CloseStep ==
  \A t \in Tasks :
    /\ (\E sid \in CallIds : Close(t, sid) /\ procs' # procs) =>
         ~C21_OtherClose(t, {"term_wait", "kill_wait"})
    /\ (TerminateKill(t) /\ op[t] = "close") =>
         ~C21_OtherClose(t, {"kill_wait"})
    /\ (op[t] = "close" /\ pc[t] # "idle" /\ pc'[t] = "idle") =>
         /\ result'[t] = "ok"
         /\ arg[t] \notin DOMAIN sessions'

\* C21: two close calls on the same id, interleaved at their suspension
\* points, apply the termination policy to the process at most once: a close
\* sends SIGTERM only if no other close of that id has done so and is still
\* waiting, and SIGKILL likewise; each returns without error, the entry gone.
C21_SerializedClose == [][C21_CloseStep]_vars


\* the tasks whose operation is a close of the session that stream t reads
C22_Closers(t) == {u \in Tasks \ {t} : op[u] = "close" /\ arg[u] = arg[t]}

\* what stream t may yield: events of its own session and process
C22_Own(t, e) ==
  CASE e.type \in {"session_start", "session_end"} ->
         e.data.session_id = arg[t]
    [] IsExitError(e) ->
         /\ e.data.returncode = procs[StreamProc(t)].returncode
         /\ e.data.stderr = Strip(procs[StreamProc(t)].stderr)
    [] OTHER -> TRUE

C22_Stream ==
  \A t \in Tasks : (IsStream(t) /\ C22_Closers(t) # {}) =>
    LET evs == events[t] IN
    /\ result[t] \in {"pending", "ok"}
    /\ pc[t] # "idle" => tproc[t] = StreamProc(t)
    /\ \A i \in 1..Len(evs) : C22_Own(t, evs[i])
    /\ Cardinality(Indexes(t, IsExitError)) <= 1
    /\ Cardinality({i \in 1..Len(evs) : evs[i].type = "session_end"})
         = IF pc[t] = "idle" THEN 1 ELSE 0
    /\ pc[t] = "idle" => Last(evs) = SessionEnd(arg[t])

C22_Step ==
  \A t \in Tasks :
    /\ \A sid \in CallIds :
         (/\ Close(t, sid)
          /\ \E u \in Tasks : IsStream(u) /\ arg[u] = sid /\ pc[u] = "read"
          /\ OpenEntry(sid)
          /\ Running(objs[sid].process)) =>
            /\ procs' = Signal(objs[sid].process, "SIGTERM")
            /\ pc'[t] = "term_wait"
    /\ (IsStream(t) /\ C22_Closers(t) # {} /\ pc[t] # "idle" /\ pc'[t] = "idle") =>
         /\ ~Running(StreamProc(t))
         /\ procs' = procs
         /\ arg[t] \notin DOMAIN sessions'

C23_StreamEnds ==
  \A t \in Tasks :
    (op[t] = "stream_events" /\ pc[t] # "idle") ~> (pc[t] = "idle" /\ Ended(t))

\* the process of session a, if a was ever registered
C24_ProcOf(a) == IF a \in DOMAIN objs THEN {objs[a].process} ELSE {}

\* a step leaves alone every table entry, session object and process but a's
C24_Frame(a) ==
  /\ \A b \in (DOMAIN sessions \cup DOMAIN sessions') \ {a} :
       /\ b \in DOMAIN sessions /\ b \in DOMAIN sessions'
       /\ sessions'[b] = sessions[b]
  /\ \A b \in (DOMAIN objs \cup DOMAIN objs') \ {a} :
       /\ b \in DOMAIN objs /\ b \in DOMAIN objs'
       /\ objs'[b] = objs[b]
  /\ Len(procs') = Len(procs)
  /\ \A q \in DOMAIN procs \ C24_ProcOf(a) :
       /\ procs'[q].stdin = procs[q].stdin
       /\ procs'[q].stdin_closed = procs[q].stdin_closed
       /\ procs'[q].signals = procs[q].signals

\* the coroutine of task t runs in this step; a call that repeats the last
\* one with the same outcome, and a read of a blank line, change only the
\* counters
C24_Runs(t) ==
  <<pc[t], op[t], arg[t], tproc[t], events[t], result[t]>>
    # <<pc'[t], op'[t], arg'[t], tproc'[t], events'[t], result'[t]>>

C24_Step ==
  /\ \A t \in Tasks :
       (C24_Runs(t) /\ op'[t] \in {"send", "stream_events", "close"}) =>
         C24_Frame(arg'[t])
  /\ (ncalls' # ncalls /\ \A t \in Tasks : ~C24_Runs(t)) =>
       \E t \in Tasks :
         /\ pc[t] = "idle" /\ op[t] \in {"send", "stream_events", "close"}
         /\ C24_Frame(arg[t])
  /\ (nlines' # nlines /\ \A t \in Tasks : ~C24_Runs(t)) =>
       \E t \in Tasks : pc[t] = "read" /\ C24_Frame(arg[t])

\* C24: every step of send, stream_events and close on session a, timeout
\* and termination included, leaves the table entry and session object of
\* every other session as they are and neither writes to nor signals any
\* process but a's.
C24_Independent == [][C24_Step]_vars

\* session 1 was closed and its process signalled; session 2 is open and its
\* process was only ever sent its prompt
C24_Witness ==
  \E t \in Tasks :
    /\ op[t] = "close" /\ arg[t] = 1 /\ pc[t] = "idle"
    /\ 1 \in DOMAIN objs /\ objs[1].closed
    /\ HasSignal(objs[1].process, "SIGTERM")
    /\ 2 \in DOMAIN sessions /\ ~objs[2].closed
    /\ Running(objs[2].process)
    /\ procs[objs[2].process].signals = <<>>
    /\ procs[objs[2].process].stdin = <<Prompt, "\n">>

C25_Step ==
  \A t \in Tasks :
    /\ \A line \in StreamLines : ReadLine(t, line) =>
         IF Strip(line) = <<>>
         THEN /\ events'[t] = events[t]
              /\ pc'[t] = "read"
              /\ result'[t] = "pending"
         ELSE /\ Len(events'[t]) = Len(events[t]) + 1
              /\ SubSeq(events'[t], 1, Len(events[t])) = events[t]
              /\ Last(events'[t]).type \in {"text", "tool_start", "tool_result", "error"}
              /\ pc'[t] = "read" \/ IsLoopFailure(Last(events'[t]))
    /\ (pc[t] = "read" /\ pc'[t] \notin {"read", "exc_yield", "timeout_yield"}) =>
         procs[tproc[t]].stdout = "eof"

\* C25: a line that is empty once stripped yields nothing and leaves the
\* stream reading; a line that is not yields exactly one event, before any
\* session_end; the loop is left without an error event only at end of file.
C25_BlankLineGoesOn == [][C25_Step]_vars

\* a stream that read a blank line, then an error line, and ended at end of file
C25_Witness ==
  \E t \in Tasks :
    /\ IsStream(t) /\ pc[t] = "idle" /\ Ended(t)
    /\ ncalls = 2 /\ nlines = 2
    /\ Len(events[t]) = 3
    /\ events[t][2] = Ev("error", [type |-> "error", error |-> "bad"])

C26_Tracking ==
  /\ Cardinality(DOMAIN sessions) <= 1
  /\ adapter.pc = "idle" => DOMAIN sessions \subseteq {adapter.session_id}
  /\ (adapter.pc = "idle" /\ adapter.result = "ok"
        /\ adapter.op \in {"receive_response", "__aexit__"}) =>
       /\ adapter.session_id = 0
       /\ sessions = <<>>
  /\ adapter.result = "RuntimeError" =>
       adapter.op = "receive_response" /\ adapter.session_id = 0

C26_Step ==
  /\ ReceiveResponse =>
       IF adapter.session_id = 0
       THEN /\ adapter'.result = "RuntimeError"
            /\ UNCHANGED <<sessions, objs, procs>>
       ELSE adapter'.result # "RuntimeError"
  /\ Len(procs') > Len(procs) =>
       /\ sessions = <<>>
       /\ adapter'.op = "query"
  /\ (Query /\ adapter.session_id \in DOMAIN sessions) =>
       LET p == objs[adapter.session_id].process IN
       /\ Len(procs') = Len(procs)
       /\ IF Running(p)
          THEN procs' = Signal(p, "SIGTERM")
          ELSE adapter.session_id \notin DOMAIN sessions'
  /\ (adapter.session_id # 0 /\ adapter'.session_id = 0) =>
       /\ adapter.session_id \notin DOMAIN sessions'
       /\ adapter'.op \in {"receive_response", "__aexit__"}

\* C26: the adapter tracks at most one session. query closes the tracked
\* session on the client before it starts the new one, so at most one session
\* is ever in the client's table, and with the adapter at rest it is the
\* tracked one; receive_response raises RuntimeError exactly when no id is
\* tracked; a receive_response that ran to its end and __aexit__ leave the
\* session closed and no id tracked.
C26_OneSession == []C26_Tracking /\ [][C26_Step]_vars

\* a second query: session 1 was closed and its process signalled, session 2
\* is open and tracked
C26_Witness ==
  /\ adapter.op = "query" /\ adapter.pc = "idle" /\ adapter.result = "ok"
  /\ adapter.session_id = 2
  /\ DOMAIN sessions = {2}
  /\ 1 \in DOMAIN objs
  /\ objs[1].closed
  /\ HasSignal(objs[1].process, "SIGTERM")

\* no truthy text, content or raw
C27_NoText(data) ==
  \A k \in {"text", "content", "raw"} : k \notin DOMAIN data \/ data[k] = ""

\* the messages of a sequence of events, in their order
RECURSIVE C27_Messages(_)
C27_Messages(evs) ==
  IF evs = <<>> THEN <<>>
  ELSE EventToMessage(Head(evs)) \o C27_Messages(Tail(evs))

\* C27: session_start, session_end and a text event with no text, content or
\* raw give no message; an error event gives one assistant message whose text
\* is its error field, or "Unknown error" without one; tool_start gives one
\* assistant tool-use block named by name, else tool, else "tool"; tool_result
\* gives one user tool-result block; receive_response has yielded the
\* messages of the events streamed so far, in the order of the events.
C27_Translation ==
  /\ ret.op = "_event_to_message" =>
       LET e == ret.arg
           out == ret.out
           block == out[1].content[1]
       IN
       CASE e.type \in {"session_start", "session_end"} -> out = None
         [] e.type = "text" ->
              IF C27_NoText(e.data) THEN out = None
              ELSE /\ Len(out) = 1 /\ Len(out[1].content) = 1
                   /\ out[1].message = "AssistantMessage"
                   /\ block.block = "TextBlock" /\ block.text # ""
         [] e.type = "error" ->
              /\ Len(out) = 1 /\ Len(out[1].content) = 1
              /\ out[1].message = "AssistantMessage"
              /\ block.block = "TextBlock"
              /\ block.text = IF "error" \in DOMAIN e.data /\ e.data.error # ""
                              THEN e.data.error ELSE "Unknown error"
         [] e.type = "tool_start" ->
              /\ Len(out) = 1 /\ Len(out[1].content) = 1
              /\ out[1].message = "AssistantMessage"
              /\ block.block = "ToolUseBlock"
              /\ block.name =
                   IF "name" \in DOMAIN e.data /\ e.data.name # "" THEN e.data.name
                   ELSE IF "tool" \in DOMAIN e.data /\ e.data.tool # ""
                   THEN e.data.tool ELSE "tool"
         [] e.type = "tool_result" ->
              /\ Len(out) = 1 /\ Len(out[1].content) = 1
              /\ out[1].message = "UserMessage"
              /\ block.block = "ToolResultBlock"
  /\ adapter.pc \in {"recv", "recv_yield", "recv_done"} =>
       adapter.messages = C27_Messages(events[AdapterTask])

\* an error event without an error field was translated, and a response has
\* yielded the message of an error line and then that of the exit code
C27_Witness ==
  /\ ret.op = "_event_to_message"
  /\ ret.arg = Ev("error", [type |-> "error"])
  /\ ret.out = Some(AssistantMessage(<<TextBlock("Unknown error")>>))
  /\ adapter.pc = "recv_yield"
  /\ adapter.messages =
       << AssistantMessage(<<TextBlock("bad")>>),
          AssistantMessage(<<TextBlock("process exited with error")>>) >>

C28_Table ==
  \A sid \in DOMAIN sessions :
    LET session == objs[sessions[sid]] IN
    /\ ~session.closed
    /\ session.process \in DOMAIN procs
    /\ session.session_id = sid

C28_Step ==
  /\ \A sid \in DOMAIN objs :
       /\ (~objs[sid].closed /\ objs'[sid].closed) => sid \notin DOMAIN sessions'
       /\ (sid \in DOMAIN sessions /\ sid \notin DOMAIN sessions') =>
            ~objs[sid].closed /\ objs'[sid].closed
  /\ \A t \in Tasks, sid \in CallIds :
       Send(t, sid) => (result'[t] = "ValueError" <=> sid \notin DOMAIN sessions)

\* C28: whenever a coroutine is suspended, every entry of the session table
\* is not closed, has a process and is stored under its own session_id; a
\* session object is marked closed in the very step that takes its id out of
\* the table, so send raises NotFound exactly for the ids that are not in it.
C28_TableInvariant == []C28_Table /\ [][C28_Step]_vars

\* of two sessions the first was closed: it is marked closed and out of the
\* table, the second is in it, not closed
C28_Witness ==
  /\ DOMAIN objs = {1, 2}
  /\ objs[1].closed /\ 1 \notin DOMAIN sessions
  /\ 2 \in DOMAIN sessions /\ ~objs[sessions[2]].closed
  /\ \E t \in Tasks : op[t] = "close" /\ arg[t] = 1 /\ pc[t] = "idle"

====
